---- MODULE Spec2Model ----
(***************************************************************************)
(* Model of the golang-notebook examples:                                  *)
(*   - the "accept interfaces, return structs" service/store pair          *)
(*     (service/service.go, db/db.go) and its example wiring (main.go);    *)
(*   - the sync.WaitGroup examples of the notebook pages (basic hello,     *)
(*     sync.Map fetch, mutex-guarded map fetch);                           *)
(*   - the goroutine, defer and labelled-break examples of the pages.      *)
(***************************************************************************)
EXTENDS Integers, Sequences, FiniteSets, TLC

VARIABLES
  svc,        \* the *UserService under test
  injected,   \* the store that was passed to NewUserService
  last,       \* the last service operation: name, arguments, store calls, results
  inserted,   \* the IDs of the records handed to the store's Insert so far
  mainPc,     \* example wiring: position in main
  mainStore,  \* example wiring: <<store>> once constructed
  mainUseService, \* example wiring: <<useService>> once constructed
  mainLog,    \* example wiring: constructions and service calls made, in order
  mainErr,    \* example wiring: the error CreateUser returned
  stdout,     \* example wiring: lines printed
  example,    \* page examples: which program runs ("basic", "syncmap", "mutex", "goroutine", ...)
  wg,         \* WaitGroup examples: the WaitGroup counter
  mpc,        \* WaitGroup examples: position of the main goroutine
  mi,         \* WaitGroup examples: index of main's current loop
  gpc,        \* WaitGroup examples: per goroutine, index of its next statement (0: not started)
  defers,     \* WaitGroup examples: per goroutine, the deferred calls, last registered first
  valuesMu,   \* mutex example: <<holder>> of result.valuesMu, <<>> when unlocked
  values,     \* mutex example: result.values, as a set of entries
  m,          \* sync.Map example: the entries of m
  ranged,     \* mutex example: keys main's range loop has visited
  wgOut       \* WaitGroup examples: lines printed

svcVars == <<svc, injected, last, inserted>>
mainVars == <<mainPc, mainStore, mainUseService, mainLog, mainErr, stdout>>
wgVars == <<example, wg, mpc, mi, gpc, defers, valuesMu, values, m, ranged, wgOut>>
vars == <<svcVars, mainVars, wgVars>>

(***************************************************************************)
(* Bounds of the model.                                                    *)
(***************************************************************************)
\* number of distinct non-nil errors an arbitrary UserStorer may return
NumErrs == 2
\* number of distinct store instances of each kind a service may be built on
NumStores == 2

(***************************************************************************)
(* Values.                                                                 *)
(***************************************************************************)
\* non-nil errors of a store
StoreErrors == {[store |-> "failed", code |-> i] : i \in 1..NumErrs}

\* error values are one-element sequences holding the error, or <<>> for nil,
\* so that a nil error and a store error are always comparable
Err(e) == <<e>>
Nil == <<>>
Errors == {Err(e) : e \in StoreErrors}

\* type User struct { ID string; Email string }
User == [ID : {"", "1", "2"}, Email : {"", "a@example.com"}]

\* var user User : the zero value
ZeroUser == [ID |-> "", Email |-> ""]

\* identifiers a caller may ask for
Ids == {"1", "missing"}

(***************************************************************************)
(* db/db.go : the concrete store, and any other implementation of the      *)
(* UserStorer interface.  A store instance is [kind, id]: kind "db" is     *)
(* the *db.Store built by NewDB, kind "any" an arbitrary UserStorer.       *)
(***************************************************************************)
NewDB(i) == [kind |-> "db", id |-> i]

AnyStorer(i) == [kind |-> "any", id |-> i]

StoreInstances == {NewDB(i) : i \in 1..NumStores} \cup {AnyStorer(i) : i \in 1..NumStores}

\* what an arbitrary store may leave in the caller's output slot
Populate(slot) == {[ID |-> i, Email |-> em] : i \in {slot.ID, "1", "2"}, em \in {slot.Email, "a@example.com"}}

\* func (s *Store) Insert(item interface{}) error { return nil }
\* the set of errors the call may return
Insert(s, item) == IF s.kind = "db" THEN {Nil} ELSE {Nil} \cup Errors

\* func (s *Store) Get(id string, val interface{}) error { return nil }
\* the set of (error, slot contents after the call) the call may produce
Get(s, id, slot) ==
  IF s.kind = "db"
    THEN {[err |-> Nil, slot |-> slot]}
    ELSE {[err |-> e, slot |-> v] : e \in {Nil} \cup Errors, v \in Populate(slot)}

(***************************************************************************)
(* service/service.go                                                      *)
(***************************************************************************)
\* func NewUserService(s UserStorer) *UserService
NewUserService(s) == [store |-> s]

\* a store call as the service issues it
InsertCall(item, e) == [op |-> "Insert", item |-> <<item>>, id |-> "", err |-> e, out |-> Nil]
GetCall(id, slot, g) == [op |-> "Get", item |-> <<slot>>, id |-> id, err |-> g.err, out |-> <<g.slot>>]

\* CreateUser that tries the insert a second time when the first one fails
CreateUserRetry(u, user) ==
  {[calls |-> IF e1 # Nil THEN <<InsertCall(user, e1), InsertCall(user, e2)>>
                           ELSE <<InsertCall(user, e1)>>,
    val |-> Nil,
    err |-> IF e1 # Nil THEN e2 ELSE Nil,
    u |-> u] : e1 \in Insert(u.store, user), e2 \in Insert(u.store, user)}

\* CreateUser that rejects a record without an ID before reaching the store
CreateUserValidates(u, user) ==
  {[calls |-> <<InsertCall(user, err)>>,
    val |-> Nil,
    err |-> IF user.ID = "" THEN Err([store |-> "invalid", code |-> 0])
            ELSE IF err # Nil THEN err ELSE Nil,
    u |-> u] : err \in Insert(u.store, user)}

\* CreateUser that drops its store when the insert fails
CreateUserResetsStore(u, user) ==
  {[calls |-> <<InsertCall(user, err)>>,
    val |-> Nil,
    err |-> IF err # Nil THEN err ELSE Nil,
    u |-> IF err # Nil THEN [store |-> [kind |-> "db", id |-> 0]] ELSE u] : err \in Insert(u.store, user)}

\* CreateUser that fills in a missing ID before the insert
CreateUserEnriches(u, user) ==
  LET item == IF user.ID = "" THEN [user EXCEPT !.ID = "1"] ELSE user
  IN {[calls |-> <<InsertCall(item, err)>>,
       val |-> Nil,
       err |-> IF err # Nil THEN err ELSE Nil,
       u |-> u] : err \in Insert(u.store, user)}

\* func (u *UserService) CreateUser(ctx, user *User) error
\* the possible runs: the store calls made, the error returned, and the
\* service struct afterwards
CreateUser(u, user) ==
  {[calls |-> <<InsertCall(user, err)>>,
    val |-> Nil,
    err |-> IF err # Nil THEN err ELSE Nil,
    u |-> u] : err \in Insert(u.store, user)}

\* RetrieveUser that returns the slot whatever the store answered
RetrieveUserKeepsSlot(u, id) ==
  LET user == ZeroUser
  IN {[calls |-> <<GetCall(id, user, g)>>,
       val |-> <<g.slot>>,
       err |-> IF g.err # Nil THEN g.err ELSE Nil,
       u |-> u] : g \in Get(u.store, id, user)}

\* RetrieveUser whose slot is kept between calls instead of declared in the call
RetrieveUserSharedSlot(u, id) ==
  LET user == IF last.val # Nil THEN last.val[1] ELSE ZeroUser
  IN {[calls |-> <<GetCall(id, user, g)>>,
       val |-> IF g.err # Nil THEN Nil ELSE <<g.slot>>,
       err |-> IF g.err # Nil THEN g.err ELSE Nil,
       u |-> u] : g \in Get(u.store, id, user)}

\* func (u *UserService) RetrieveUser(ctx, id string) (interface{}, error)
RetrieveUser(u, id) ==
  LET user == ZeroUser
  IN {[calls |-> <<GetCall(id, user, g)>>,
       val |-> IF g.err # Nil THEN Nil ELSE <<g.slot>>,
       err |-> IF g.err # Nil THEN g.err ELSE Nil,
       u |-> u] : g \in Get(u.store, id, user)}

NoOp == [name |-> "none", user |-> Nil, id |-> "", calls |-> <<>>, val |-> Nil, err |-> Nil]

InitService ==
  /\ \E s \in StoreInstances : svc = NewUserService(s) /\ injected = s
  /\ last = NoOp
  /\ inserted = {}

\* the IDs of the records a run handed to Insert
InsertedBy(calls) == {calls[k].item[1].ID : k \in {n \in 1..Len(calls) : calls[n].op = "Insert"}}

\* a caller invokes CreateUser
CallCreateUser ==
  \E user \in User : \E r \in CreateUser(svc, user) :
    /\ svc' = r.u
    /\ last' = [name |-> "CreateUser", user |-> <<user>>, id |-> "",
                calls |-> r.calls, val |-> r.val, err |-> r.err]
    /\ inserted' = inserted \cup InsertedBy(r.calls)
    /\ UNCHANGED <<injected, mainVars, wgVars>>

\* a caller invokes RetrieveUser
CallRetrieveUser ==
  \E id \in Ids : \E r \in RetrieveUser(svc, id) :
    /\ svc' = r.u
    /\ last' = [name |-> "RetrieveUser", user |-> Nil, id |-> id,
                calls |-> r.calls, val |-> r.val, err |-> r.err]
    /\ inserted' = inserted \cup InsertedBy(r.calls)
    /\ UNCHANGED <<injected, mainVars, wgVars>>

(***************************************************************************)
(* main.go : the example wiring.                                           *)
(***************************************************************************)
InitMain ==
  /\ mainPc = "start"
  /\ mainStore = <<>>
  /\ mainUseService = <<>>
  /\ mainLog = <<>>
  /\ mainErr = Nil
  /\ stdout = <<>>

\* fmt.Println(fmt.Errorf("error: %s", err))
ErrorLine(err) == [text |-> "error: %s", args |-> err]

\* fmt.Printf("User created: %+v", user) : the text written, without newline
CreatedText(user) == [text |-> "User created: %+v", args |-> <<user>>]

\* the number of bytes that Printf writes for a *User: "User created: &{ID:.. Email:..}"
PrintfBytes(user) ==
  Len("User created: ") + Len("&{ID:") + Len(user.ID) + Len(" Email:") + Len(user.Email) + Len("}")

\* fmt.Println(n, err) of what Printf returned, written after Printf's text
PrintfResult(user) == [text |-> "%v %v", args |-> <<PrintfBytes(user), Nil>>]

\* the wiring handed a store whose insert may fail with a StoreError, in
\* place of the stub of db.NewDB()
MainStoreDouble ==
  /\ mainPc = "start"
  /\ mainStore' = <<AnyStorer(0)>>
  /\ mainLog' = Append(mainLog, "store double")
  /\ mainPc' = "store"
  /\ UNCHANGED <<mainUseService, mainErr, stdout, svcVars, wgVars>>

\* store := db.NewDB()
MainNewDB ==
  /\ mainPc = "start"
  /\ mainStore' = <<NewDB(0)>>
  /\ mainLog' = Append(mainLog, "NewDB")
  /\ mainPc' = "store"
  /\ UNCHANGED <<mainUseService, mainErr, stdout, svcVars, wgVars>>

\* useService := service.NewUserService(store)
MainNewUserService ==
  /\ mainPc = "store"
  /\ mainUseService' = <<NewUserService(mainStore[1])>>
  /\ mainLog' = Append(mainLog, "NewUserService")
  /\ mainPc' = "service"
  /\ UNCHANGED <<mainStore, mainErr, stdout, svcVars, wgVars>>

\* main whose error check is inverted (err == nil)
MainCreateUserInverted ==
  /\ mainPc = "service"
  /\ \E r \in CreateUser(mainUseService[1], ZeroUser) :
       /\ mainUseService' = <<r.u>>
       /\ mainErr' = r.err
       /\ stdout' = IF r.err = Nil THEN Append(stdout, ErrorLine(r.err)) ELSE stdout
  /\ mainLog' = Append(mainLog, "CreateUser")
  /\ mainPc' = "created"
  /\ UNCHANGED <<mainStore, svcVars, wgVars>>

\* user := &service.User{}
\* if err := useService.CreateUser(ctx, user); err != nil { fmt.Println(...) }
MainCreateUser ==
  /\ mainPc = "service"
  /\ \E r \in CreateUser(mainUseService[1], ZeroUser) :
       /\ mainUseService' = <<r.u>>
       /\ mainErr' = r.err
       /\ stdout' = IF r.err # Nil THEN Append(stdout, ErrorLine(r.err)) ELSE stdout
  /\ mainLog' = Append(mainLog, "CreateUser")
  /\ mainPc' = "created"
  /\ UNCHANGED <<mainStore, svcVars, wgVars>>

\* main that reports the creation only when CreateUser returned no error
MainPrintCreatedOnSuccess ==
  /\ mainPc = "created"
  /\ stdout' = IF mainErr = Nil
                 THEN stdout \o <<CreatedText(ZeroUser), PrintfResult(ZeroUser)>>
                 ELSE stdout
  /\ mainPc' = "done"
  /\ UNCHANGED <<mainStore, mainUseService, mainLog, mainErr, svcVars, wgVars>>

\* fmt.Println(fmt.Printf("User created: %+v", user)) ; main returns
MainPrintCreated ==
  /\ mainPc = "created"
  /\ stdout' = stdout \o <<CreatedText(ZeroUser), PrintfResult(ZeroUser)>>
  /\ mainPc' = "done"
  /\ UNCHANGED <<mainStore, mainUseService, mainLog, mainErr, svcVars, wgVars>>

(***************************************************************************)
(* sync.WaitGroup, and the examples built on it.  A goroutine's function   *)
(* is the sequence of its statements; a deferred call is registered when   *)
(* its defer statement is reached and runs when the function returns,      *)
(* last registered first.                                                  *)
(***************************************************************************)
Defer(c) == [defer |-> TRUE, call |-> c]
Call(c) == [defer |-> FALSE, call |-> c]

\* func (wg *WaitGroup) Add(delta int) : adds delta to the counter
WgAdd(c, delta) == c + delta

\* func (wg *WaitGroup) Done() : decrements the counter by one
WgDone(c) == WgAdd(c, -1)

\* Wait that does not block
WgWaitSkipped(c) == TRUE

\* func (wg *WaitGroup) Wait() : blocks until the counter is zero
WgWait(c) == c = 0

\* hello that decrements the counter first, without defer
helloNoDefer ==
  << Call("wg.Done"),
     Call("fmt.Println(Hello World)") >>

\* func hello(wg *sync.WaitGroup)
hello ==
  << Defer("wg.Done"),
     Call("fmt.Println(Hello World)") >>

\* func returnType(url string, wg *sync.WaitGroup, m *sync.Map)
returnTypeSyncMap ==
  << Defer("wg.Done"),
     Call("http.Get"),
     Defer("resp.Body.Close"),
     Call("m.Store") >>

\* func returnType(url string, wg *sync.WaitGroup, result *Result)
returnTypeMutex ==
  << Defer("wg.Done"),
     Call("http.Get"),
     Defer("resp.Body.Close"),
     Defer("valuesMu.Unlock"),
     Call("valuesMu.Lock"),
     Call("values[url] = contentType") >>

\* urls := []string{...}
urls == <<"https://golang.org", "https://api.github.com", "https://httpbin.org/xml">>

\* the content type each url answers with
ContentType(url) ==
  CASE url = "https://golang.org" -> "text/html; charset=utf-8"
    [] url = "https://api.github.com" -> "application/json; charset=utf-8"
    [] url = "https://httpbin.org/xml" -> "application/xml"

Examples == {"basic", "syncmap", "mutex", "goroutine", "defer", "select"}

\* the goroutines main starts, in order, and the function each runs
Spawns(e) == IF e = "basic" THEN <<"hello">> ELSE urls

Body(e) ==
  CASE e = "basic" -> hello
    [] e = "syncmap" -> returnTypeSyncMap
    [] e = "mutex" -> returnTypeMutex
    [] OTHER -> <<>>

\* func add(x, y int), started by `go add(1, 1)` : the goroutine example
add ==
  << Call("fmt.Println(x + y)") >>

\* func myFunc() : the defer example
myFunc ==
  << Defer("fmt.Println(Last)"),
     Defer("fmt.Println(Second)"),
     Call("fmt.Println(First)") >>

\* go func(ch chan string) { time.Sleep(...); ch <- "message 2" }(ch)
sendMessage ==
  << Call("time.Sleep"),
     Call("ch <- message 2") >>

\* go func(ch chan struct{}) { time.Sleep(...); ch <- struct{}{} }(done)
sendDone ==
  << Call("time.Sleep"),
     Call("done <- struct{}{}") >>

\* the function goroutine w runs (myFunc is called by main itself)
BodyOf(w) ==
  CASE w = "add" -> add
    [] w = "myFunc" -> myFunc
    [] w = "sendMessage" -> sendMessage
    [] w = "sendDone" -> sendDone
    [] OTHER -> Body(example)

Goroutines == {"hello", "add", "myFunc", "sendMessage", "sendDone"} \cup {urls[k] : k \in 1..Len(urls)}

\* a printed line
Line(text, url, val) == [text |-> text, url |-> url, val |-> val]

\* m.Store(key, value) / values[key] = value on a map held as a set of entries
MapStore(mp, key, value) == {en \in mp : en.url # key} \cup {[url |-> key, ctype |-> value]}

Keys(mp) == {en.url : en \in mp}

\* the goroutine has returned and run its deferred calls
Finished(w) == gpc[w] > Len(BodyOf(w)) /\ defers[w] = <<>>

\* goroutines that outlive main
RunningAfterMain == TRUE

\* the process lives until main returns
Running == mpc # "done"

InitWG(e) ==
  /\ example = e
  /\ wg = 0
  /\ mpc = "start"
  /\ mi = 1
  /\ gpc = [w \in Goroutines |-> 0]
  /\ defers = [w \in Goroutines |-> <<>>]
  /\ valuesMu = <<>>
  /\ values = {}
  /\ m = {}
  /\ ranged = {}
  /\ wgOut = <<>>

\* what a call does when goroutine w executes it
Effect(w, call) ==
  CASE call = "fmt.Println(Hello World)" ->
         /\ wgOut' = Append(wgOut, Line("Hello World", "", ""))
         /\ UNCHANGED <<wg, valuesMu, values, m>>
    [] call = "wg.Done" ->
         /\ wg' = WgDone(wg)
         /\ UNCHANGED <<wgOut, valuesMu, values, m>>
    [] call = "m.Store" ->
         /\ m' = MapStore(m, w, ContentType(w))
         /\ UNCHANGED <<wg, wgOut, valuesMu, values>>
    [] call = "valuesMu.Lock" ->
         /\ valuesMu = <<>>
         /\ valuesMu' = <<w>>
         /\ UNCHANGED <<wg, wgOut, values, m>>
    [] call = "values[url] = contentType" ->
         /\ values' = MapStore(values, w, ContentType(w))
         /\ UNCHANGED <<wg, wgOut, valuesMu, m>>
    [] call = "valuesMu.Unlock" ->
         /\ valuesMu' = <<>>
         /\ UNCHANGED <<wg, wgOut, values, m>>
    [] call = "resp.Body.Close" ->
         UNCHANGED <<wg, wgOut, valuesMu, values, m>>
    [] call \in {"fmt.Println(First)", "fmt.Println(Second)", "fmt.Println(Last)"} ->
         /\ wgOut' = Append(wgOut, Line(call, "", ""))
         /\ UNCHANGED <<wg, valuesMu, values, m>>
    [] call = "time.Sleep" ->
         UNCHANGED <<wg, wgOut, valuesMu, values, m>>
    [] call \in {"ch <- message 2", "done <- struct{}{}"} ->
         \* a send on an unbuffered channel blocks; it completes in the
         \* step in which main's select receives from the channel
         FALSE
    [] call = "fmt.Println(x + y)" ->
         /\ wgOut' = Append(wgOut, Line("%d", "", ToString(1 + 1)))
         /\ UNCHANGED <<wg, valuesMu, values, m>>

\* defer that queues the call behind the ones registered before
GoDeferFifo(w) ==
  /\ Running
  /\ gpc[w] \in 1..Len(BodyOf(w))
  /\ BodyOf(w)[gpc[w]].defer
  /\ defers' = [defers EXCEPT ![w] = @ \o <<BodyOf(w)[gpc[w]].call>>]
  /\ gpc' = [gpc EXCEPT ![w] = @ + 1]
  /\ UNCHANGED <<svcVars, mainVars, example, wg, mpc, mi, valuesMu, values, m, ranged, wgOut>>

\* goroutine w reaches a defer statement: the call is registered
GoDefer(w) ==
  /\ Running
  /\ gpc[w] \in 1..Len(BodyOf(w))
  /\ BodyOf(w)[gpc[w]].defer
  /\ defers' = [defers EXCEPT ![w] = <<BodyOf(w)[gpc[w]].call>> \o @]
  /\ gpc' = [gpc EXCEPT ![w] = @ + 1]
  /\ UNCHANGED <<svcVars, mainVars, example, wg, mpc, mi, valuesMu, values, m, ranged, wgOut>>

\* resp, err := http.Get(url) ; if err != nil { fmt.Printf(...); return }
GoHttpGet(w) ==
  /\ Running
  /\ gpc[w] \in 1..Len(BodyOf(w))
  /\ BodyOf(w)[gpc[w]] = Call("http.Get")
  /\ \/ /\ gpc' = [gpc EXCEPT ![w] = @ + 1]
        /\ UNCHANGED wgOut
     \/ /\ gpc' = [gpc EXCEPT ![w] = Len(BodyOf(w)) + 1]
        /\ wgOut' = Append(wgOut, Line("%s -> error: %s", w, "error"))
  /\ UNCHANGED <<svcVars, mainVars, example, wg, mpc, mi, defers, valuesMu, values, m, ranged>>

\* goroutine w executes its next statement, a plain call
GoCall(w) ==
  /\ Running
  /\ gpc[w] \in 1..Len(BodyOf(w))
  /\ ~BodyOf(w)[gpc[w]].defer
  /\ BodyOf(w)[gpc[w]].call # "http.Get"
  /\ Effect(w, BodyOf(w)[gpc[w]].call)
  /\ gpc' = [gpc EXCEPT ![w] = @ + 1]
  /\ UNCHANGED <<svcVars, mainVars, example, mpc, mi, defers, ranged>>

\* goroutine w is returning: the deferred call registered last runs
GoReturn(w) ==
  /\ Running
  /\ gpc[w] > Len(BodyOf(w))
  /\ defers[w] # <<>>
  /\ Effect(w, Head(defers[w]))
  /\ defers' = [defers EXCEPT ![w] = Tail(@)]
  /\ UNCHANGED <<svcVars, mainVars, example, mpc, mi, gpc, ranged>>

Goroutine(w) == GoDefer(w) \/ GoHttpGet(w) \/ GoCall(w) \/ GoReturn(w)

\* wg.Add(1) / wg.Add(len(urls))
WGMainAdd ==
  /\ example \in {"basic", "syncmap", "mutex"}
  /\ mpc = "start"
  /\ wg' = WgAdd(wg, Len(Spawns(example)))
  /\ mpc' = "go"
  /\ UNCHANGED <<svcVars, mainVars, example, mi, gpc, defers, valuesMu, values, m, ranged, wgOut>>

\* go hello(&wg) / for _, url := range urls { go returnType(url, &wg, ...) }
WGMainGo ==
  /\ mpc = "go"
  /\ gpc' = [gpc EXCEPT ![Spawns(example)[mi]] = 1]
  /\ IF mi = Len(Spawns(example))
       THEN mpc' = "wait" /\ mi' = 1
       ELSE mpc' = "go" /\ mi' = mi + 1
  /\ UNCHANGED <<svcVars, mainVars, example, wg, defers, valuesMu, values, m, ranged, wgOut>>

\* wg.Wait()
WGMainWait ==
  /\ mpc = "wait"
  /\ WgWait(wg)
  /\ mpc' = CASE example = "basic" -> "goodbye"
              [] example = "syncmap" -> "load"
              [] example = "mutex" -> "range"
  /\ UNCHANGED <<svcVars, mainVars, example, wg, mi, gpc, defers, valuesMu, values, m, ranged, wgOut>>

\* fmt.Println("goodbye") ; main returns
BasicMainGoodbye ==
  /\ mpc = "goodbye"
  /\ wgOut' = Append(wgOut, Line("goodbye", "", ""))
  /\ mpc' = "done"
  /\ UNCHANGED <<svcVars, mainVars, example, wg, mi, gpc, defers, valuesMu, values, m, ranged>>

\* for _, url := range urls { ctype, ok := m.Load(url); ... }
SyncMapMainLoad ==
  /\ mpc = "load"
  /\ LET url == urls[mi]
         found == {en \in m : en.url = url}
         ctype == IF found = {} THEN "<nil>" ELSE (CHOOSE en \in found : TRUE).ctype
         errLine == IF found = {} THEN <<Line("Error loading value from map for %s", url, "")>> ELSE <<>>
     IN wgOut' = wgOut \o errLine \o <<Line("Found val: %v for %s", url, ctype)>>
  /\ IF mi = Len(urls)
       THEN mpc' = "rangemap" /\ mi' = 1
       ELSE mpc' = "load" /\ mi' = mi + 1
  /\ UNCHANGED <<svcVars, mainVars, example, wg, gpc, defers, valuesMu, values, m, ranged>>

\* m.Range(...) into stdMap ; json.MarshalIndent ; fmt.Println(string(b))
SyncMapMainRange ==
  /\ mpc = "rangemap"
  /\ ranged' = Keys(m)
  /\ wgOut' = Append(wgOut, [text |-> "json", url |-> "", val |-> "", map |-> m])
  /\ mpc' = "end"
  /\ UNCHANGED <<svcVars, mainVars, example, wg, mi, gpc, defers, valuesMu, values, m>>

\* for url, ctype := range result.values { fmt.Println(...) } : one iteration,
\* in the order the map yields its keys
MutexMainRange ==
  /\ mpc = "range"
  /\ \E en \in values :
       /\ en.url \notin ranged
       /\ ranged' = ranged \cup {en.url}
       /\ wgOut' = Append(wgOut, Line("Url: content-type:", en.url, en.ctype))
  /\ UNCHANGED <<svcVars, mainVars, example, wg, mpc, mi, gpc, defers, valuesMu, values, m>>

\* the range loop of the mutex example is over
MutexMainRangeEnd ==
  /\ mpc = "range"
  /\ Keys(values) \subseteq ranged
  /\ mpc' = "end"
  /\ UNCHANGED <<svcVars, mainVars, example, wg, mi, gpc, defers, valuesMu, values, m, ranged, wgOut>>

\* fmt.Println("Done!") ; main returns
FetchMainDone ==
  /\ mpc = "end"
  /\ wgOut' = Append(wgOut, Line("Done!", "", ""))
  /\ mpc' = "done"
  /\ UNCHANGED <<svcVars, mainVars, example, wg, mi, gpc, defers, valuesMu, values, m, ranged>>

\* go add(1, 1)
GoroutineMainGo ==
  /\ example = "goroutine"
  /\ mpc = "start"
  /\ gpc' = [gpc EXCEPT !["add"] = 1]
  /\ mpc' = "return"
  /\ UNCHANGED <<svcVars, mainVars, example, wg, mi, defers, valuesMu, values, m, ranged, wgOut>>

\* main has no further statement: it returns and the process exits
GoroutineMainReturn ==
  /\ example = "goroutine"
  /\ mpc = "return"
  /\ mpc' = "done"
  /\ UNCHANGED <<svcVars, mainVars, example, wg, mi, gpc, defers, valuesMu, values, m, ranged, wgOut>>

\* func main() { myFunc() } : the call
DeferMainCall ==
  /\ example = "defer"
  /\ mpc = "start"
  /\ gpc' = [gpc EXCEPT !["myFunc"] = 1]
  /\ mpc' = "call"
  /\ UNCHANGED <<svcVars, mainVars, example, wg, mi, defers, valuesMu, values, m, ranged, wgOut>>

\* myFunc has returned, and main returns
DeferMainReturn ==
  /\ example = "defer"
  /\ mpc = "call"
  /\ Finished("myFunc")
  /\ mpc' = "done"
  /\ UNCHANGED <<svcVars, mainVars, example, wg, mi, gpc, defers, valuesMu, values, m, ranged, wgOut>>

\* goroutine w is blocked in the channel send `call`
Sending(w, call) ==
  /\ gpc[w] \in 1..Len(BodyOf(w))
  /\ BodyOf(w)[gpc[w]] = Call(call)

\* ch := make(chan string) ; done := make(chan struct{}) ; the two go statements
SelectMainGo ==
  /\ example = "select"
  /\ mpc = "start"
  /\ gpc' = [gpc EXCEPT ![<<"sendMessage", "sendDone">>[mi]] = 1]
  /\ IF mi = 2
       THEN mpc' = "select" /\ mi' = 1
       ELSE mpc' = "start" /\ mi' = mi + 1
  /\ UNCHANGED <<svcVars, mainVars, example, wg, defers, valuesMu, values, m, ranged, wgOut>>

\* select { case val := <-ch: ... } : main receives what sendMessage sends
SelectReceive ==
  /\ example = "select"
  /\ mpc = "select"
  /\ Sending("sendMessage", "ch <- message 2")
  /\ gpc' = [gpc EXCEPT !["sendMessage"] = @ + 1]
  /\ mpc' = "received"
  /\ UNCHANGED <<svcVars, mainVars, example, wg, mi, defers, valuesMu, values, m, ranged, wgOut>>

\* fmt.Println("Received from channel: ", val) ; next iteration of the loop
SelectPrintReceived ==
  /\ example = "select"
  /\ mpc = "received"
  /\ wgOut' = Append(wgOut, Line("Received from channel: ", "", "message 2"))
  /\ mpc' = "select"
  /\ UNCHANGED <<svcVars, mainVars, example, wg, mi, gpc, defers, valuesMu, values, m, ranged>>

\* case <-done with a break that leaves the select only
SelectDoneBreakSelect ==
  /\ example = "select"
  /\ mpc = "select"
  /\ Sending("sendDone", "done <- struct{}{}")
  /\ gpc' = [gpc EXCEPT !["sendDone"] = @ + 1]
  /\ mpc' = "select"
  /\ UNCHANGED <<svcVars, mainVars, example, wg, mi, defers, valuesMu, values, m, ranged, wgOut>>

\* select { case <-done: break loop } : main receives from done and leaves the for loop
SelectDone ==
  /\ example = "select"
  /\ mpc = "select"
  /\ Sending("sendDone", "done <- struct{}{}")
  /\ gpc' = [gpc EXCEPT !["sendDone"] = @ + 1]
  /\ mpc' = "afterloop"
  /\ UNCHANGED <<svcVars, mainVars, example, wg, mi, defers, valuesMu, values, m, ranged, wgOut>>

\* fmt.Println("Done!") ; main returns
SelectMainDone ==
  /\ example = "select"
  /\ mpc = "afterloop"
  /\ wgOut' = Append(wgOut, Line("Done!", "", ""))
  /\ mpc' = "done"
  /\ UNCHANGED <<svcVars, mainVars, example, wg, mi, gpc, defers, valuesMu, values, m, ranged>>

WGMain ==
  \/ WGMainAdd
  \/ WGMainGo
  \/ WGMainWait
  \/ BasicMainGoodbye
  \/ SyncMapMainLoad
  \/ SyncMapMainRange
  \/ MutexMainRange
  \/ MutexMainRangeEnd
  \/ FetchMainDone
  \/ GoroutineMainGo
  \/ GoroutineMainReturn
  \/ DeferMainCall
  \/ DeferMainReturn
  \/ SelectMainGo
  \/ SelectReceive
  \/ SelectPrintReceived
  \/ SelectDone
  \/ SelectMainDone

\* the service and the wiring are not part of the WaitGroup programs
ServiceIdle ==
  /\ svc = NewUserService(NewDB(1))
  /\ injected = NewDB(1)
  /\ last = NoOp
  /\ inserted = {}

InitWGExamples == ServiceIdle /\ InitMain /\ \E e \in Examples : InitWG(e)

NextWG ==
  \/ WGMainAdd
  \/ WGMainGo
  \/ WGMainWait
  \/ BasicMainGoodbye
  \/ SyncMapMainLoad
  \/ SyncMapMainRange
  \/ MutexMainRange
  \/ MutexMainRangeEnd
  \/ FetchMainDone
  \/ GoroutineMainGo
  \/ GoroutineMainReturn
  \/ DeferMainCall
  \/ DeferMainReturn
  \/ SelectMainGo
  \/ SelectReceive
  \/ SelectPrintReceived
  \/ SelectDone
  \/ SelectMainDone
  \/ \E w \in Goroutines : GoDefer(w)
  \/ \E w \in Goroutines : GoHttpGet(w)
  \/ \E w \in Goroutines : GoCall(w)
  \/ \E w \in Goroutines : GoReturn(w)

SpecWG == InitWGExamples /\ [][NextWG]_vars

\* the Go scheduler lets every runnable goroutine run
FairSpecWG ==
  /\ SpecWG
  /\ WF_vars(WGMain)
  /\ \A w \in Goroutines : WF_vars(Goroutine(w))

MainNext ==
  \/ MainNewDB
  \/ MainNewUserService
  \/ MainCreateUser
  \/ MainPrintCreated

\* no WaitGroup program runs beside the service
Init == InitService /\ InitMain /\ InitWG("none")

Next ==
  \/ CallCreateUser
  \/ CallRetrieveUser
  \/ MainNewDB
  \/ MainNewUserService
  \/ MainCreateUser
  \/ MainPrintCreated

Spec == Init /\ [][Next]_vars

\* the service and the wiring, the wiring run on the stub of db.NewDB() or
\* on a store whose insert may fail
NextWiring ==
  \/ CallCreateUser
  \/ CallRetrieveUser
  \/ MainNewDB
  \/ MainStoreDouble
  \/ MainNewUserService
  \/ MainCreateUser
  \/ MainPrintCreated

SpecWiring == Init /\ [][NextWiring]_vars

(***************************************************************************)
(* Properties of the service and of the example wiring.                    *)
(***************************************************************************)
\* the store calls of the last service operation
LastCalls(op) == {k \in 1..Len(last.calls) : last.calls[k].op = op}

\* C1: when the store's Insert returns an error e, CreateUser returns that
\* same e, and Insert has been called exactly once when CreateUser returns.
C1_CreateUserPropagatesInsertError ==
  last.name = "CreateUser" =>
    \A k \in LastCalls("Insert") :
      last.calls[k].err # Nil =>
        /\ last.err = last.calls[k].err
        /\ Cardinality(LastCalls("Insert")) = 1

C1_Witness ==
  /\ last.name = "CreateUser"
  /\ last.calls[1].err \in Errors
  /\ last.err = last.calls[1].err

\* C2: for any record, the zero-valued User included, CreateUser against a
\* store whose Insert does not fail returns no error.
C2_CreateUserSucceedsWhenInsertSucceeds ==
  (last.name = "CreateUser" /\ \A k \in LastCalls("Insert") : last.calls[k].err = Nil)
    => last.err = Nil

C2_Witness ==
  /\ last.name = "CreateUser"
  /\ last.user = <<ZeroUser>>
  /\ svc.store.kind = "db"
  /\ last.err = Nil

\* C3: when the store's Get returns an error e, RetrieveUser returns nil for
\* the record together with that same e, whatever the store left in the slot.
C3_RetrieveUserPropagatesGetError ==
  last.name = "RetrieveUser" =>
    \A k \in LastCalls("Get") :
      last.calls[k].err # Nil => (last.val = Nil /\ last.err = last.calls[k].err)

C3_Witness ==
  /\ last.name = "RetrieveUser"
  /\ last.id = "missing"
  /\ last.calls[1].err \in Errors
  /\ last.calls[1].out # <<ZeroUser>>
  /\ last.val = Nil

\* C4: on the store built by NewDB, fetching an id for which no record was
\* stored fails with an error.
C4_FetchOfMissingIdFails ==
  (last.name = "RetrieveUser" /\ svc.store.kind = "db" /\ last.id \notin inserted)
    => (last.err # Nil /\ last.val = Nil)

\* C5: when the store's Get succeeds, RetrieveUser returns, with a nil error,
\* the slot as the store left it, and the slot it handed to the store was a
\* zero-valued User, so that nothing of an earlier result is in it.
C5_RetrieveUserReturnsFreshSlot ==
  (last.name = "RetrieveUser" /\ last.calls[1].err = Nil) =>
    /\ last.err = Nil
    /\ last.val = last.calls[1].out
    /\ last.calls[1].item = <<ZeroUser>>
    /\ last.val[1] \in Populate(ZeroUser)
    /\ svc.store.kind = "db" => last.val = <<ZeroUser>>

C5_Witness ==
  /\ last.name = "RetrieveUser"
  /\ last.err = Nil
  /\ last.val = <<[ID |-> "1", Email |-> ""]>>

\* C6: the service's store field is the store that was passed to
\* NewUserService, after any sequence of CreateUser and RetrieveUser calls.
C6_StoreReferenceKept ==
  svc.store = injected

C6_Witness ==
  /\ last.name = "CreateUser"
  /\ last.err # Nil
  /\ "2" \in inserted
  /\ svc.store = injected

\* the order of constructions and calls of the example wiring
MainSequence == <<"NewDB", "NewUserService", "CreateUser">>

\* the error lines printed
ErrorLines == {k \in 1..Len(stdout) : stdout[k].text = "error: %s"}

\* C7: the example wiring constructs one store and one service bound to it,
\* calls CreateUser once, prints the error text exactly when that call
\* returned an error (never with the store of NewDB), and then stops.
C7_WiringIsLinearOneShot ==
  /\ Len(mainLog) <= Len(MainSequence)
  /\ mainLog = SubSeq(MainSequence, 1, Len(mainLog))
  /\ mainPc \in {"created", "done"} =>
       /\ mainLog = MainSequence
       /\ mainUseService[1].store = mainStore[1]
       /\ (ErrorLines # {}) <=> (mainErr # Nil)
       /\ ErrorLines = {}
  /\ mainPc = "done" => ~ENABLED MainNext

C7_Witness ==
  /\ mainPc = "done"
  /\ mainLog = MainSequence
  /\ mainErr = Nil

\* C9: CreateUser makes exactly one store call, an Insert of the user it was
\* given, unchanged; RetrieveUser makes exactly one store call, a Get of the
\* id it was given.
C9_ServiceDelegatesOnce ==
  /\ last.name = "CreateUser" =>
       /\ Len(last.calls) = 1
       /\ last.calls[1].op = "Insert"
       /\ last.calls[1].item = last.user
  /\ last.name = "RetrieveUser" =>
       /\ Len(last.calls) = 1
       /\ last.calls[1].op = "Get"
       /\ last.calls[1].id = last.id

C9_Witness ==
  /\ last.name = "CreateUser"
  /\ last.user = <<ZeroUser>>
  /\ last.calls = <<InsertCall(ZeroUser, Nil)>>
  /\ svc.store.kind = "any"

(***************************************************************************)
(* Properties of the WaitGroup examples.                                   *)
(***************************************************************************)
\* main of a fetch example is past wg.Wait(): it reads the aggregated results
ReadingResults ==
  /\ example \in {"syncmap", "mutex"}
  /\ mpc \in {"load", "rangemap", "range", "end", "done"}

\* C8: in the sync.Map and mutex fetch examples, once main is past wg.Wait()
\* every worker has finished, and from then on the shared result set is
\* never written again.
C8_ResultsReadAfterAllWorkersFinished ==
  /\ [](ReadingResults => \A k \in 1..Len(urls) : Finished(urls[k]))
  /\ [][ReadingResults => (values' = values /\ m' = m)]_vars

C8_Witness ==
  /\ example = "mutex"
  /\ mpc = "range"
  /\ Cardinality(values) = 2
  /\ Cardinality(ranged) = 1
  /\ \A k \in 1..Len(urls) : Finished(urls[k])

HelloLine == Line("Hello World", "", "")
GoodbyeLine == Line("goodbye", "", "")

\* C10: in the basic example "Hello World" is printed before "goodbye", and
\* main gets past wg.Wait() and terminates.
C10_HelloBeforeGoodbyeAndMainTerminates ==
  /\ [](example = "basic" =>
          \/ wgOut = <<>>
          \/ wgOut = <<HelloLine>>
          \/ wgOut = <<HelloLine, GoodbyeLine>> /\ mpc = "done")
  /\ (example = "basic") ~> (mpc = "done" /\ wgOut = <<HelloLine, GoodbyeLine>>)

C10_Witness ==
  /\ example = "basic"
  /\ mpc = "done"
  /\ wgOut = <<HelloLine, GoodbyeLine>>
  /\ wg = 0

(***************************************************************************)
(* Properties of the goroutine, defer and labelled-break examples.         *)
(***************************************************************************)
SumLine == Line("%d", "", "2")

DeferOutput ==
  << Line("fmt.Println(First)", "", ""),
     Line("fmt.Println(Second)", "", ""),
     Line("fmt.Println(Last)", "", "") >>

\* C12: in the defer example the deferred calls run only after the body of
\* myFunc has finished, last registered first: the output is "First", then
\* "Second", then "Last", and it is complete when main returns.
C12_DeferredCallsRunLastInFirstOut ==
  example = "defer" =>
    /\ Len(wgOut) <= Len(DeferOutput)
    /\ wgOut = SubSeq(DeferOutput, 1, Len(wgOut))
    /\ Len(wgOut) > 1 => gpc["myFunc"] > Len(myFunc)
    /\ Len(defers["myFunc"]) > 0 /\ gpc["myFunc"] <= Len(myFunc) => wgOut = <<>>
    /\ mpc = "done" => wgOut = DeferOutput

C12_Witness ==
  /\ example = "defer"
  /\ mpc = "done"
  /\ wgOut = DeferOutput
  /\ defers["myFunc"] = <<>>

ReceivedLine == Line("Received from channel: ", "", "message 2")
DoneLine == Line("Done!", "", "")

\* C13: in the labelled-break select example main eventually prints "Done!"
\* and exits; "Received from channel" is printed at most once and never
\* after "Done!", which is printed when main leaves the loop and not before.
C13_BreakLoopLeavesTheLoop ==
  /\ [](example = "select" =>
          /\ wgOut \in {<<>>, <<ReceivedLine>>, <<DoneLine>>, <<ReceivedLine, DoneLine>>}
          /\ (mpc = "done") <=> (wgOut # <<>> /\ wgOut[Len(wgOut)] = DoneLine))
  /\ (example = "select") ~> (mpc = "done")

C13_Witness ==
  /\ example = "select"
  /\ mpc = "done"
  /\ wgOut = <<ReceivedLine, DoneLine>>
  /\ ~Running

====
